---- MODULE Spec2Model ----
(***************************************************************************)
(* Blog-AI backend: the request orchestration (generate_blog, get_blog)   *)
(* and the token / session layer (register, login, logout, verify_token). *)
(* Every request is an asyncio task; a task runs without interruption     *)
(* between two awaits, so one action is the code between two awaits, or   *)
(* one synchronous stage call of generate_blog made while the task holds  *)
(* the event loop.  The clock counts ticks, several to the second, so    *)
(* the truncation of a JWT expiry to whole seconds is visible.            *)
(***************************************************************************)
EXTENDS Integers, Sequences, FiniteSets, TLC

\* ---------------------------------------------------------------- bounds
MaxTime == 1
MaxUsers == 2
MaxBlogs == 1
MaxHistory == 1
MaxAudit == 2
TokMaxTime == 4
TicksPerSecond == 2
MaxRuns == 2

Tasks == {"t1", "t2"}
Emails == {"a@x", "b@x"}
Passwords == {"pw1", "pw2"}
RegisterPasswords == {"pw1"}
Urls == {"u1"}
RunUrls == {"u1", "u2"}

\* ------------------------------------------------------ program constants
JwtExpiryMinutes == 60
NumImages == 3

VARIABLES
    mongodb_uri,          \* settings.mongodb_uri is set
    unsplash_access_key,  \* settings.unsplash_access_key is set
    jwt_secret_key,       \* settings.jwt_secret_key
    unique_email_index,   \* the deployed users collection has a unique index on email
    users, history, blogs,\* the three collections, in insertion order
    now,                  \* wall clock, in ticks
    pc, cur, arg, loc, calls, \* per task: position, identity, arguments, locals, stage calls
    last,                 \* the request that completed in the last step, with its response
    issued, verified      \* token-service harness: tokens issued, last verification

vars == <<mongodb_uri, unsplash_access_key, jwt_secret_key, unique_email_index,
          users, history, blogs, now,
          pc, cur, arg, loc, calls, last, issued, verified>>

config == <<mongodb_uri, unsplash_access_key, jwt_secret_key, unique_email_index>>
stores == <<users, history, blogs>>
harness == <<issued, verified>>
tasks == <<pc, cur, arg, loc, calls>>

\* ------------------------------------------------------------- time
\* timegm(dt.utctimetuple()): a datetime truncated to whole seconds
Seconds(t) == t \div TicksPerSecond

\* timedelta(minutes=m) in clock ticks
Minutes(m) == m * 60 * TicksPerSecond

\* ------------------------------------------------------------- tokens
AllClaims == {"sub", "email", "exp"}

\* jwt.encode: the claims, exp as whole seconds, signed with key
JwtEncode(sub, email, exp_ticks, key) ==
    [form |-> "jwt", claims |-> AllClaims, sub |-> sub, email |-> email,
     exp |-> Seconds(exp_ticks), key |-> key]

\* a variant of create_access_token that adds no lifetime
create_access_token_without_lifetime(user_id, email, expires_delta, t_now, secret) ==
    JwtEncode(user_id, email, t_now, secret)

create_access_token(user_id, email, expires_delta, t_now, secret) ==
    JwtEncode(user_id, email, t_now + expires_delta, secret)

NoIdentity == [kind |-> "none", user_id |-> 0, email |-> "", exp |-> 0]
RaisedTypeError == [kind |-> "raise", user_id |-> 0, email |-> "", exp |-> 0]

\* a variant of jwt.decode that does not check the signature
JwtDecodeUnsigned(token, secret, t_now) ==
    \/ token.form # "jwt"
    \/ ("exp" \in token.claims /\ token.exp < Seconds(t_now))

\* jwt.decode: JWTError for a string that is no JWT, for a signature made
\* with another key, and for an exp claim earlier than the current second
JwtDecodeFails(token, secret, t_now) ==
    \/ token.form # "jwt"
    \/ token.key # secret
    \/ ("exp" \in token.claims /\ token.exp < Seconds(t_now))

verify_token(token, secret, t_now) ==
    IF JwtDecodeFails(token, secret, t_now) THEN NoIdentity
    ELSE IF "exp" \notin token.claims THEN RaisedTypeError
    ELSE IF "sub" \notin token.claims \/ "email" \notin token.claims THEN NoIdentity
    ELSE [kind |-> "data", user_id |-> token.sub, email |-> token.email,
          exp |-> token.exp]

\* ------------------------------------------------------------- responses
NoBody == [kind |-> "none"]
NoResp == [status |-> 0, error |-> <<>>, details |-> "", body |-> NoBody]

StatusCodeText(status) ==
    CASE status = 400 -> "Status code: 400"
      [] status = 401 -> "Status code: 401"
      [] status = 403 -> "Status code: 403"
      [] status = 404 -> "Status code: 404"
      [] status = 503 -> "Status code: 503"
      [] OTHER -> "Status code: 500"

\* raise HTTPException(status, detail), rendered by http_exception_handler
http_exception_handler(status, detail) ==
    [status |-> status, error |-> detail, details |-> StatusCodeText(status),
     body |-> NoBody]

\* any other exception, rendered by general_exception_handler
general_exception_handler(exc) ==
    [status |-> 500, error |-> <<"Internal server error">>, details |-> exc,
     body |-> NoBody]

Ok(body) == [status |-> 200, error |-> <<>>, details |-> "", body |-> body]

\* ------------------------------------------------------------- credentials
NoToken == [form |-> "none", claims |-> {}, sub |-> 0, email |-> "", exp |-> 0,
            key |-> ""]
Garbage == [NoToken EXCEPT !.form = "garbage"]
NoCredential == [scheme |-> "missing", token |-> NoToken]
Bearer(token) == [scheme |-> "bearer", token |-> token]

\* HTTPBearer() with auto_error: the status of "no Authorization header"
\* is 403 in older FastAPI releases and 401 in newer ones
MissingCredentialStatus == {401, 403}

\* security + get_current_user: the response that rejects the request, or
\* NoResp when the identity is injected
get_current_user(cred, identity, missing_status) ==
    IF cred.scheme = "missing"
    THEN http_exception_handler(missing_status, <<"Not authenticated">>)
    ELSE IF identity.kind = "raise"
    THEN general_exception_handler("TypeError")
    ELSE IF identity.kind = "none"
    THEN http_exception_handler(401, <<"Could not validate credentials">>)
    ELSE NoResp

\* the identity verify_token yields for the credential (none without a token)
IdentityOf(cred, secret, t_now) ==
    IF cred.scheme = "missing" THEN NoIdentity
    ELSE verify_token(cred.token, secret, t_now)

\* a token of subject s as login issues it at tick t0
LoginToken(s, t0, key) ==
    create_access_token(s.sub, s.email, Minutes(JwtExpiryMinutes), t0, key)

\* what a client can send: nothing, the token login issued to an account
\* when it was created, one whose expiry has passed, one signed with a key
\* of the client's own, and a correctly signed token that lacks the exp claim
ExpiredToken(s, key) == [LoginToken(s, 0, key) EXCEPT !.exp = -1]
ForgedToken(s) == LoginToken(s, 0, "forged")
TokenWithout(s, claim, key) ==
    [LoginToken(s, 0, key) EXCEPT !.claims = AllClaims \ {claim}]

Alice == [sub |-> 1, email |-> "a@x"]

Subject(u) == [sub |-> u.id, email |-> u.email]

Credentials ==
    {NoCredential}
    \cup {Bearer(LoginToken(Subject(users[i]), users[i].created_at, jwt_secret_key)) :
            i \in 1..Len(users)}
    \cup {Bearer(ExpiredToken(Alice, "k1")), Bearer(ForgedToken(Alice)),
          Bearer(TokenWithout(Alice, "exp", "k1"))}

\* ------------------------------------------------------------- tasks
NoWrites == [users |-> 0, blogs |-> 0, history |-> 0]
NoLoc == [start_time |-> 0, featured_image |-> "null", additional_images |-> <<>>,
          processing_time |-> 0, generated_at |-> 0, ts |-> 0, id |-> 0,
          token |-> NoToken, wrote |-> NoWrites]
NoArg == [route |-> "none"]
NoRequest == [arg |-> NoArg, cur |-> NoIdentity, calls |-> <<>>, resp |-> NoResp,
              wrote |-> NoWrites]

\* the positions inside generate_blog's synchronous section: the stage calls
\* do not await, so the task keeps the event loop until it suspends
SyncPcs == {"gen_validate", "gen_extract", "gen_clean", "gen_keywords",
            "gen_topics", "gen_prompt", "gen_generate", "gen_featured",
            "gen_images", "gen_seo"}
LoopBusy == \E t \in Tasks : pc[t] \in SyncPcs

\* the event loop can start a request on t, or resume t after an await
Free(t) == pc[t] = "idle" /\ ~LoopBusy
Resumes(t, at) == pc[t] = at /\ ~LoopBusy
InFlight(route) == {t \in Tasks : pc[t] # "idle" /\ arg[t].route = route}

Set(f, t, v) == [f EXCEPT ![t] = v]

\* the request of task t ends with response r; its locals die with it, and
\* last keeps what the client and the stores saw of it
Finish(t, a, c, l, cl, r) ==
    /\ pc' = Set(pc, t, "idle")
    /\ cur' = Set(cur, t, NoIdentity)
    /\ arg' = Set(arg, t, NoArg)
    /\ loc' = Set(loc, t, NoLoc)
    /\ calls' = Set(calls, t, <<>>)
    /\ last' = [arg |-> a, cur |-> c, calls |-> cl, resp |-> r, wrote |-> l.wrote]

\* the request of task t goes on at p with locals l and stage calls cl
Continue(t, p, a, c, l, cl) ==
    /\ pc' = Set(pc, t, p)
    /\ cur' = Set(cur, t, c)
    /\ arg' = Set(arg, t, a)
    /\ loc' = Set(loc, t, l)
    /\ calls' = Set(calls, t, cl)
    /\ last' = NoRequest

\* a response r ends the request, NoResp lets it go on
Step(t, r, p, a, c, l, cl) ==
    IF r # NoResp THEN Finish(t, a, c, l, cl, r) ELSE Continue(t, p, a, c, l, cl)

\* collection helpers: get_mongo_client raises ValueError without a URI
MongoNotConfigured == "MONGODB_URI not configured"
StoreFault == "PyMongoError"
StoreOutcomes == {"ok", "fault"}

\* ------------------------------------------------------------- collaborators
\* The stage collaborators are black boxes: what each returns is a value
\* tagged with the input it was derived from; what each may do is below.
ExcMessages == {"boom", "bang"}
ValidateOutcomes == {"ok", "invalid", "raise"}
ExtractOutcomes == {"ok", "ValueError", "raise"}
CleanOutcomes == {"ok", "empty", "raise"}
PlainOutcomes == {"ok", "raise"}
FeaturedOutcomes == {"image", "none", "raise"}
ImagesOutcomes == {"images", "empty", "raise"}

BlogOf(url) == <<"blog", url>>
KeywordsOf(url) == <<"keywords", url>>
AnalysisOf(url) == <<"analysis", url>>
TitleOf(url) == <<"title", url>>
WordCountOf(url) == <<"word_count", url>>
FeaturedImage == "featured.jpg"
FetchedImages == [i \in 1..NumImages |-> "image.jpg"]

\* except Exception as e: HTTPException(500, f"Internal server error: {e}")
InternalError(msg) == http_exception_handler(500, <<"Internal server error: ", msg>>)

\* ------------------------------------------------------------- protected routes
SessionRoutes == {"logout", "me", "history"}
PipelineRoutes == {"generate_blog", "get_blog"}
ProtectedRoutes == SessionRoutes \cup PipelineRoutes

Rejection(cred, ms) ==
    get_current_user(cred, IdentityOf(cred, jwt_secret_key, now), ms)

\* a variant of the dependency that lets every request through
AdmittedWhoever(cred) == TRUE

Admitted(cred) == Rejection(cred, 401) = NoResp

\* Depends(get_current_user) fails: the route's handler is never entered
Rejected(route, cred, ms) ==
    /\ \E t \in Tasks : Free(t)
    /\ ~Admitted(cred)
    /\ last' = [arg |-> [route |-> route, cred |-> cred],
                cur |-> IdentityOf(cred, jwt_secret_key, now), calls |-> <<>>,
                resp |-> Rejection(cred, ms), wrote |-> NoWrites]
    /\ UNCHANGED <<config, stores, now, tasks, harness>>

\* ------------------------------------------------------------- generate_blog
\* POST /generate-blog: get_current_user, then start_time = time.time()
EnterGenerateBlog(t, cred, url) ==
    /\ Free(t)
    /\ Admitted(cred)
    /\ Step(t, NoResp, "gen_validate",
            [route |-> "generate_blog", cred |-> cred, url |-> url],
            IdentityOf(cred, jwt_secret_key, now),
            [NoLoc EXCEPT !.start_time = now], <<>>)
    /\ UNCHANGED <<config, stores, now, harness>>

\* the runs already made and those in flight
Runs(coll) == Len(coll) + Cardinality(InFlight("generate_blog"))

GenerateBlog(t, cred, url) ==
    /\ Runs(blogs) < MaxBlogs
    /\ Runs(history) < MaxHistory
    /\ EnterGenerateBlog(t, cred, url)

\* the same request where up to MaxRuns runs may be in flight together
GenerateBlogConcurrently(t, cred, url) ==
    /\ Runs(blogs) < MaxRuns
    /\ Runs(history) < MaxRuns
    /\ EnterGenerateBlog(t, cred, url)

\* one synchronous stage call by the task inside the section: the response r
\* aborts the run, NoResp goes on at next with locals l
Stage(t, at, stage, outcome, r, next, l) ==
    /\ pc[t] = at
    /\ Step(t, r, next, arg[t], cur[t], l,
            Append(calls[t], [stage |-> stage, outcome |-> outcome]))
    /\ UNCHANGED <<config, stores, now, harness>>

\* a variant of step 1 that ignores is_valid
OnValidateIgnoringVerdict(outcome, msg) ==
    IF outcome \in {"ok", "invalid"} THEN NoResp ELSE InternalError(msg)

\* Step 1: is_valid, error_msg = url_validator.validate(url)
OnValidate(outcome, msg) ==
    CASE outcome = "ok" -> NoResp
      [] outcome = "invalid" ->
           http_exception_handler(400, <<"URL validation failed: ", msg>>)
      [] OTHER -> InternalError(msg)

GenValidate(t, outcome, msg) ==
    Stage(t, "gen_validate", "validate", outcome, OnValidate(outcome, msg),
          "gen_extract", loc[t])

\* Step 2: content_extractor.extract(url), ValueError caught
OnExtract(outcome, msg) ==
    CASE outcome = "ok" -> NoResp
      [] outcome = "ValueError" ->
           http_exception_handler(400, <<"Content extraction failed: ", msg>>)
      [] OTHER -> InternalError(msg)

GenExtract(t, outcome, msg) ==
    Stage(t, "gen_extract", "extract", outcome, OnExtract(outcome, msg),
          "gen_clean", loc[t])

\* Step 3: text_cleaner.clean(...), empty result rejected
OnClean(outcome, msg) ==
    CASE outcome = "ok" -> NoResp
      [] outcome = "empty" ->
           http_exception_handler(400, <<"No usable content found after cleaning">>)
      [] OTHER -> InternalError(msg)

GenClean(t, outcome, msg) ==
    Stage(t, "gen_clean", "clean", outcome, OnClean(outcome, msg),
          "gen_keywords", loc[t])

\* Steps 4 to 6: no handler of their own, a failure reaches "except Exception"
OnAnalysis(outcome, msg) ==
    IF outcome = "ok" THEN NoResp ELSE InternalError(msg)

GenKeywords(t, outcome, msg) ==
    Stage(t, "gen_keywords", "extract_and_categorize", outcome,
          OnAnalysis(outcome, msg), "gen_topics", loc[t])

GenTopics(t, outcome, msg) ==
    Stage(t, "gen_topics", "analyze", outcome, OnAnalysis(outcome, msg),
          "gen_prompt", loc[t])

GenPrompt(t, outcome, msg) ==
    Stage(t, "gen_prompt", "build_prompt", outcome, OnAnalysis(outcome, msg),
          "gen_generate", loc[t])

\* Step 7: blog_generator.generate(prompt), every Exception caught
\* a variant of step 7 that swallows the generator's exception
OnGenerateSwallowing(outcome, msg) == NoResp

OnGenerate(outcome, msg) ==
    IF outcome = "ok" THEN NoResp
    ELSE http_exception_handler(500, <<"Blog generation failed: ", msg>>)

\* a variant that enters step 8 whatever the configuration
AfterGenerateAlwaysImages == "gen_featured"

\* Step 8 is entered only with an image-provider key
AfterGenerate == IF unsplash_access_key THEN "gen_featured" ELSE "gen_seo"

GenGenerate(t, outcome, msg) ==
    Stage(t, "gen_generate", "generate", outcome, OnGenerate(outcome, msg),
          AfterGenerate, loc[t])

\* Step 8a: image_fetcher.get_featured_image; a failure skips to step 9
FeaturedResult(outcome, before) ==
    IF outcome = "image" THEN FeaturedImage ELSE before

\* a variant that goes back to step 7 after the featured image
AfterFeaturedRepeating(outcome) == "gen_generate"

AfterFeatured(outcome) == IF outcome = "raise" THEN "gen_seo" ELSE "gen_images"

GenFeatured(t, outcome) ==
    Stage(t, "gen_featured", "get_featured_image", outcome, NoResp,
          AfterFeatured(outcome),
          [loc[t] EXCEPT !.featured_image = FeaturedResult(outcome, @)])

\* Step 8b: image_fetcher.fetch_images; featured_image keeps its value
ImagesResult(outcome, before) ==
    IF outcome = "images" THEN FetchedImages ELSE before

GenImages(t, outcome) ==
    Stage(t, "gen_images", "fetch_images", outcome, NoResp, "gen_seo",
          [loc[t] EXCEPT !.additional_images = ImagesResult(outcome, @)])

\* the response object built at lines 253-273 from the run's locals
BlogContent(url, l) ==
    [title |-> TitleOf(url), content |-> BlogOf(url),
     featured_image |-> l.featured_image,
     additional_images |-> l.additional_images]

GenResponse(url, l) ==
    Ok([blog |-> BlogContent(url, l), keywords |-> KeywordsOf(url),
        analysis |-> AnalysisOf(url), word_count |-> WordCountOf(url),
        processing_time |-> l.processing_time])

\* a variant of blog_doc that stores the blog without its images
BlogDocWithoutImages(user_id, url, l) ==
    [user_id |-> user_id, url |-> url, title |-> TitleOf(url),
     generated_at |-> l.generated_at, blog |-> BlogContent(url, NoLoc),
     keywords |-> KeywordsOf(url), analysis |-> AnalysisOf(url),
     word_count |-> WordCountOf(url), processing_time |-> l.processing_time]

\* a variant of blog_doc that files every artifact under the first account
BlogDocOfFirstAccount(user_id, url, l) ==
    [user_id |-> 1, url |-> url, title |-> TitleOf(url),
     generated_at |-> l.generated_at, blog |-> BlogContent(url, l),
     keywords |-> KeywordsOf(url), analysis |-> AnalysisOf(url),
     word_count |-> WordCountOf(url), processing_time |-> l.processing_time]

\* blog_doc, lines 278-288
BlogDoc(user_id, url, l) ==
    [user_id |-> user_id, url |-> url, title |-> TitleOf(url),
     generated_at |-> l.generated_at, blog |-> BlogContent(url, l),
     keywords |-> KeywordsOf(url), analysis |-> AnalysisOf(url),
     word_count |-> WordCountOf(url), processing_time |-> l.processing_time]

\* time.time() - start_time, sampled right after step 9
ProcessingTime(t_now, start_time) == t_now - start_time

\* a variant of step 9 that swallows the post-processor's exception
OnSeoSwallowing(outcome, msg) ==
    IF ~mongodb_uri THEN InternalError(MongoNotConfigured) ELSE NoResp

\* Step 9: a failure reaches "except Exception"; then the response and
\* blog_doc are built and get_blogs_collection() is called
OnSeo(outcome, msg) ==
    IF outcome # "ok" THEN InternalError(msg)
    ELSE IF ~mongodb_uri THEN InternalError(MongoNotConfigured)
    ELSE NoResp

\* on success the task suspends in blogs_collection.insert_one
GenSeo(t, outcome, msg) ==
    Stage(t, "gen_seo", "process", outcome, OnSeo(outcome, msg), "gen_insert",
          [loc[t] EXCEPT !.processing_time = ProcessingTime(now, loc[t].start_time),
                         !.generated_at = now])

\* insert_one
InsertBlog(coll, doc) == Append(coll, [doc EXCEPT !.id = Len(coll) + 1])

OnStore(so) == IF so = "fault" THEN InternalError(StoreFault) ELSE NoResp

\* insert_one returns; log_user_action builds its document and suspends
GenInsert(t, so) ==
    /\ Resumes(t, "gen_insert")
    /\ Step(t, OnStore(so), "gen_log", arg[t], cur[t],
            [loc[t] EXCEPT !.id = Len(blogs) + 1, !.ts = now,
                           !.wrote.blogs = IF so = "fault" THEN 0 ELSE 1],
            calls[t])
    /\ blogs' = IF so = "fault" THEN blogs
                ELSE InsertBlog(blogs,
                       [id |-> 0] @@ BlogDoc(cur[t].user_id, arg[t].url, loc[t]))
    /\ UNCHANGED <<config, users, history, now, harness>>

\* a variant of the audit document that records no user
AuditEntryOfNobody(user_id, action, data, ts) ==
    [user_id |-> 0, action |-> action, data |-> data, timestamp |-> ts]

\* log_user_action: one document appended to the history collection
AuditEntry(user_id, action, data, ts) ==
    [user_id |-> user_id, action |-> action, data |-> data, timestamp |-> ts]

NoData == [url |-> "", title |-> <<>>, blog_id |-> 0]

\* a variant of log_user_action that inserts the document twice
log_user_action_twice(coll, user_id, action, data, ts) ==
    Append(Append(coll, AuditEntry(user_id, action, data, ts)),
           AuditEntry(user_id, action, data, ts))

log_user_action(coll, user_id, action, data, ts) ==
    Append(coll, AuditEntry(user_id, action, data, ts))

\* the audit insert returns and generate_blog returns its response
GenLog(t, so) ==
    /\ Resumes(t, "gen_log")
    /\ Finish(t, arg[t], cur[t],
              [loc[t] EXCEPT !.wrote.history = IF so = "fault" THEN 0 ELSE 1],
              calls[t],
              IF so = "fault" THEN InternalError(StoreFault)
              ELSE GenResponse(arg[t].url, loc[t]))
    /\ history' = IF so = "fault" THEN history
                  ELSE log_user_action(history, cur[t].user_id, "generate_blog",
                         [url |-> arg[t].url, title |-> TitleOf(arg[t].url),
                          blog_id |-> loc[t].id], loc[t].ts)
    /\ UNCHANGED <<config, users, blogs, now, harness>>

\* ------------------------------------------------------------- get_blog
\* ObjectId(blog_id): only a well-formed id string parses
BlogIdStrings == {[wellformed |-> TRUE, oid |-> n] : n \in 1..(MaxBlogs + 1)}
                 \cup {[wellformed |-> FALSE, oid |-> 0]}

\* a variant of the parse that accepts every string
ObjectIdParsesAnything(blog_id) == TRUE

ObjectIdParses(blog_id) == blog_id.wellformed

\* a variant of the query without the user_id filter
FindBlogOfAnyone(coll, oid, user_id) == {i \in 1..Len(coll) : coll[i].id = oid}

\* collection.find_one({"_id": oid, "user_id": user_id})
FindBlog(coll, oid, user_id) ==
    {i \in 1..Len(coll) : coll[i].id = oid /\ coll[i].user_id = user_id}

\* what get_blog answers once find_one has returned
GetBlogResponse(coll, oid, user_id) ==
    IF FindBlog(coll, oid, user_id) = {}
    THEN http_exception_handler(404, <<"Blog not found">>)
    ELSE LET doc == coll[CHOOSE i \in FindBlog(coll, oid, user_id) : TRUE]
         IN Ok([blog |-> doc.blog, keywords |-> doc.keywords,
                analysis |-> doc.analysis, word_count |-> doc.word_count,
                processing_time |-> doc.processing_time,
                generated_at |-> doc.generated_at])

\* before the await: ObjectId(blog_id), get_blogs_collection()
OnGetBlog(blog_id) ==
    IF ~ObjectIdParses(blog_id)
    THEN http_exception_handler(400, <<"Invalid blog ID">>)
    ELSE IF ~mongodb_uri THEN general_exception_handler(MongoNotConfigured)
    ELSE NoResp

\* GET /blogs/{blog_id}, up to the await of find_one
GetBlog(t, cred, blog_id) ==
    /\ Free(t)
    /\ Admitted(cred)
    /\ Step(t, OnGetBlog(blog_id), "blog_find",
            [route |-> "get_blog", cred |-> cred, blog_id |-> blog_id],
            IdentityOf(cred, jwt_secret_key, now), NoLoc, <<>>)
    /\ UNCHANGED <<config, stores, now, harness>>

\* find_one returns
GetBlogFind(t, so) ==
    /\ Resumes(t, "blog_find")
    /\ Finish(t, arg[t], cur[t], loc[t], calls[t],
              IF so = "fault" THEN general_exception_handler(StoreFault)
              ELSE GetBlogResponse(blogs, arg[t].blog_id.oid, cur[t].user_id))
    /\ UNCHANGED <<config, stores, now, harness>>

\* ------------------------------------------------------------- register
Names == {"Ann"}

\* hash_password returns the password itself; verify_password compares
hash_password(password) == password
verify_password(plain_password, stored_value) == plain_password = stored_value

\* users.find_one({"email": email}): the first match in natural order
FindUser(coll, email) == {i \in 1..Len(coll) : coll[i].email = email}
FirstUser(coll, email) ==
    coll[CHOOSE i \in FindUser(coll, email) : \A j \in FindUser(coll, email) : i <= j]

AuditRoom == Len(history) + Cardinality({t \in Tasks : pc[t] # "idle"}) < MaxAudit

ServiceUnavailable(what) == http_exception_handler(503, <<what>>)

\* POST /auth/register up to the await of find_one in create_user
Register(t, email, password, name) ==
    /\ Free(t)
    /\ AuditRoom
    /\ Len(users) + Cardinality(InFlight("register")) < MaxUsers
    /\ Step(t, IF mongodb_uri THEN NoResp
               ELSE ServiceUnavailable(
                      "User registration not available (database not configured)"),
            "reg_find",
            [route |-> "register", email |-> email, password |-> password,
             name |-> name],
            NoIdentity, NoLoc, <<>>)
    /\ UNCHANGED <<config, stores, now, harness>>

EmailTaken == http_exception_handler(400, <<"Email already registered">>)

\* the pre-check of create_user, once find_one has returned
OnRegFind(coll, email, so) ==
    IF so = "fault" THEN general_exception_handler(StoreFault)
    ELSE IF FindUser(coll, email) # {} THEN EmailTaken
    ELSE NoResp

\* find_one returns; user_doc is built and the task suspends in insert_one
RegFind(t, so) ==
    /\ Resumes(t, "reg_find")
    /\ Step(t, OnRegFind(users, arg[t].email, so), "reg_insert", arg[t], cur[t],
            [loc[t] EXCEPT !.generated_at = now], calls[t])
    /\ UNCHANGED <<config, stores, now, harness>>

\* users.insert_one(user_doc): a unique index on email, where the deployment
\* has one, refuses a second document with the same email
OnRegInsert(coll, email, so) ==
    IF so = "fault" THEN general_exception_handler(StoreFault)
    ELSE IF unique_email_index /\ FindUser(coll, email) # {}
    THEN general_exception_handler("DuplicateKeyError")
    ELSE NoResp

UserDoc(id, a, created_at) ==
    [id |-> id, email |-> a.email, password_hash |-> hash_password(a.password),
     name |-> a.name, created_at |-> created_at, updated_at |-> created_at]

InsertUser(coll, a, created_at) == Append(coll, UserDoc(Len(coll) + 1, a, created_at))

\* insert_one returns; register calls log_user_action, which suspends
RegInsert(t, so) ==
    /\ Resumes(t, "reg_insert")
    /\ Step(t, OnRegInsert(users, arg[t].email, so), "reg_log", arg[t], cur[t],
            [loc[t] EXCEPT !.id = Len(users) + 1, !.ts = now,
                           !.wrote.users =
                               IF OnRegInsert(users, arg[t].email, so) # NoResp
                               THEN 0 ELSE 1],
            calls[t])
    /\ users' = IF OnRegInsert(users, arg[t].email, so) # NoResp THEN users
                ELSE InsertUser(users, arg[t], loc[t].generated_at)
    /\ UNCHANGED <<config, history, blogs, now, harness>>

UserResponse(id, a, created_at) ==
    Ok([id |-> id, email |-> a.email, name |-> a.name, created_at |-> created_at])

\* the audit insert returns and register returns the user
RegLog(t, so) ==
    /\ Resumes(t, "reg_log")
    /\ Finish(t, arg[t], cur[t],
              [loc[t] EXCEPT !.wrote.history = IF so = "fault" THEN 0 ELSE 1],
              calls[t],
              IF so = "fault" THEN general_exception_handler(StoreFault)
              ELSE UserResponse(loc[t].id, arg[t], loc[t].generated_at))
    /\ history' = IF so = "fault" THEN history
                  ELSE log_user_action(history, loc[t].id, "register", NoData,
                                       loc[t].ts)
    /\ UNCHANGED <<config, users, blogs, now, harness>>

\* ------------------------------------------------------------- login
\* POST /auth/login up to the await of find_one in authenticate_user
Login(t, email, password) ==
    /\ Free(t)
    /\ AuditRoom
    /\ Step(t, IF mongodb_uri THEN NoResp
               ELSE ServiceUnavailable(
                      "User authentication not available (database not configured)"),
            "login_find",
            [route |-> "login", email |-> email, password |-> password],
            NoIdentity, NoLoc, <<>>)
    /\ UNCHANGED <<config, stores, now, harness>>

\* a variant of authenticate_user that skips verify_password
authenticate_user_unverified(coll, email, password) ==
    IF FindUser(coll, email) = {} THEN {} ELSE {FirstUser(coll, email)}

\* authenticate_user: the user document, or None as the empty set
authenticate_user(coll, email, password) ==
    IF FindUser(coll, email) = {} THEN {}
    ELSE IF ~verify_password(password, FirstUser(coll, email).password_hash) THEN {}
    ELSE {FirstUser(coll, email)}

InvalidLogin == http_exception_handler(401, <<"Invalid email or password">>)

OnLoginFind(coll, email, password, so) ==
    IF so = "fault" THEN general_exception_handler(StoreFault)
    ELSE IF authenticate_user(coll, email, password) = {} THEN InvalidLogin
    ELSE NoResp

\* login's locals once the user is authenticated: the token, the audit entry
LoginLocals(l, found, t_now, secret) ==
    IF found = {} THEN l
    ELSE LET u == CHOOSE u \in found : TRUE
         IN [l EXCEPT !.id = u.id, !.ts = t_now,
               !.token = create_access_token(u.id, u.email,
                           Minutes(JwtExpiryMinutes), t_now, secret)]

\* find_one returns; the token is created and log_user_action suspends
LoginFind(t, so) ==
    /\ Resumes(t, "login_find")
    /\ Step(t, OnLoginFind(users, arg[t].email, arg[t].password, so), "login_log",
            arg[t], cur[t],
            LoginLocals(loc[t], authenticate_user(users, arg[t].email,
                                                  arg[t].password),
                        now, jwt_secret_key),
            calls[t])
    /\ UNCHANGED <<config, stores, now, harness>>

TokenResponse(token) ==
    Ok([access_token |-> token, token_type |-> "bearer",
        expires_in |-> JwtExpiryMinutes * 60])

\* the audit insert returns and login returns the token
LoginLog(t, so) ==
    /\ Resumes(t, "login_log")
    /\ Finish(t, arg[t], cur[t],
              [loc[t] EXCEPT !.wrote.history = IF so = "fault" THEN 0 ELSE 1],
              calls[t],
              IF so = "fault" THEN general_exception_handler(StoreFault)
              ELSE TokenResponse(loc[t].token))
    /\ history' = IF so = "fault" THEN history
                  ELSE log_user_action(history, loc[t].id, "login", NoData, loc[t].ts)
    /\ UNCHANGED <<config, users, blogs, now, harness>>

\* ------------------------------------------------------------- logout
\* POST /auth/logout: log_user_action fetches the collection and suspends
Logout(t, cred) ==
    /\ Free(t)
    /\ AuditRoom
    /\ Admitted(cred)
    /\ Step(t, IF mongodb_uri THEN NoResp
               ELSE general_exception_handler(MongoNotConfigured),
            "logout_log", [route |-> "logout", cred |-> cred],
            IdentityOf(cred, jwt_secret_key, now), [NoLoc EXCEPT !.ts = now], <<>>)
    /\ UNCHANGED <<config, stores, now, harness>>

LoggedOut == Ok([message |-> "Logged out successfully"])

\* the audit insert returns and logout returns its message
LogoutLog(t, so) ==
    /\ Resumes(t, "logout_log")
    /\ Finish(t, arg[t], cur[t],
              [loc[t] EXCEPT !.wrote.history = IF so = "fault" THEN 0 ELSE 1],
              calls[t],
              IF so = "fault" THEN general_exception_handler(StoreFault)
              ELSE LoggedOut)
    /\ history' = IF so = "fault" THEN history
                  ELSE log_user_action(history, cur[t].user_id, "logout", NoData,
                                       loc[t].ts)
    /\ UNCHANGED <<config, users, blogs, now, harness>>

\* ------------------------------------------------------------- history
\* the limit query parameter is a plain int
HistoryLimits == {-1, 0, 1}

\* history.find({"user_id": user_id}), in natural order
EntriesOf(coll, user_id) == SelectSeq(coll, LAMBDA e : e.user_id = user_id)

\* put entry e before the first entry of the sorted seq that is not newer
RECURSIVE InsertNewestFirst(_, _)
InsertNewestFirst(e, seq) ==
    IF seq = <<>> THEN <<e>>
    ELSE IF Head(seq).timestamp > e.timestamp
    THEN <<Head(seq)>> \o InsertNewestFirst(e, Tail(seq))
    ELSE <<e>> \o seq

\* .sort("timestamp", -1)
RECURSIVE SortNewestFirst(_)
SortNewestFirst(seq) ==
    IF seq = <<>> THEN <<>>
    ELSE InsertNewestFirst(Head(seq), SortNewestFirst(Tail(seq)))

\* .limit(n): 0 means no limit, a negative n caps at -n
Limit(seq, n) ==
    LET cap == IF n < 0 THEN -n ELSE n
    IN IF n = 0 \/ cap >= Len(seq) THEN seq ELSE SubSeq(seq, 1, cap)

get_user_history(coll, user_id, limit) ==
    Limit(SortNewestFirst(EntriesOf(coll, user_id)), limit)

\* GET /auth/history up to the first fetch of the cursor
GetHistory(t, cred, limit) ==
    /\ Free(t)
    /\ Admitted(cred)
    /\ Step(t, IF mongodb_uri THEN NoResp
               ELSE ServiceUnavailable(
                      "History not available (database not configured)"),
            "history_find", [route |-> "history", cred |-> cred, limit |-> limit],
            IdentityOf(cred, jwt_secret_key, now), NoLoc, <<>>)
    /\ UNCHANGED <<config, stores, now, harness>>

\* the cursor is read to its end and the records are returned
HistoryFind(t, so) ==
    /\ Resumes(t, "history_find")
    /\ Finish(t, arg[t], cur[t], loc[t], calls[t],
              IF so = "fault" THEN general_exception_handler(StoreFault)
              ELSE Ok([records |-> get_user_history(history, cur[t].user_id,
                                                   arg[t].limit)]))
    /\ UNCHANGED <<config, stores, now, harness>>

\* ------------------------------------------------------------- environment
Tick ==
    /\ now < MaxTime
    /\ now' = now + 1
    /\ last' = NoRequest
    /\ UNCHANGED <<config, stores, tasks, harness>>

\* ------------------------------------------------------------- pipeline
NoIssue == [token |-> NoToken, at |-> 0, ttl |-> 0]
NoVerification == [token |-> NoToken, at |-> 0, result |-> NoIdentity]

TasksIdle ==
    /\ pc = [t \in Tasks |-> "idle"]
    /\ cur = [t \in Tasks |-> NoIdentity]
    /\ arg = [t \in Tasks |-> NoArg]
    /\ loc = [t \in Tasks |-> NoLoc]
    /\ calls = [t \in Tasks |-> <<>>]
    /\ last = NoRequest

\* two accounts registered earlier
Registered ==
    <<[id |-> 1, email |-> "a@x", password_hash |-> "pw1", name |-> "Ann",
       created_at |-> 0, updated_at |-> 0],
      [id |-> 2, email |-> "b@x", password_hash |-> "pw2", name |-> "Ann",
       created_at |-> 0, updated_at |-> 0]>>

Init ==
    /\ mongodb_uri \in BOOLEAN
    /\ unsplash_access_key \in BOOLEAN
    /\ jwt_secret_key = "k1"
    /\ unique_email_index = FALSE
    /\ users = Registered
    /\ history = <<>>
    /\ blogs = <<>>
    /\ now = 0
    /\ TasksIdle
    /\ issued = NoIssue
    /\ verified = NoVerification

Next ==
    \/ Tick
    \/ \E r \in ProtectedRoutes, cred \in Credentials, ms \in MissingCredentialStatus :
         Rejected(r, cred, ms)
    \/ \E t \in Tasks, cred \in Credentials, url \in Urls : GenerateBlog(t, cred, url)
    \/ \E t \in Tasks, o \in ValidateOutcomes, msg \in ExcMessages : GenValidate(t, o, msg)
    \/ \E t \in Tasks, o \in ExtractOutcomes, msg \in ExcMessages : GenExtract(t, o, msg)
    \/ \E t \in Tasks, o \in CleanOutcomes, msg \in ExcMessages : GenClean(t, o, msg)
    \/ \E t \in Tasks, o \in PlainOutcomes, msg \in ExcMessages : GenKeywords(t, o, msg)
    \/ \E t \in Tasks, o \in PlainOutcomes, msg \in ExcMessages : GenTopics(t, o, msg)
    \/ \E t \in Tasks, o \in PlainOutcomes, msg \in ExcMessages : GenPrompt(t, o, msg)
    \/ \E t \in Tasks, o \in PlainOutcomes, msg \in ExcMessages : GenGenerate(t, o, msg)
    \/ \E t \in Tasks, o \in FeaturedOutcomes : GenFeatured(t, o)
    \/ \E t \in Tasks, o \in ImagesOutcomes : GenImages(t, o)
    \/ \E t \in Tasks, o \in PlainOutcomes, msg \in ExcMessages : GenSeo(t, o, msg)
    \/ \E t \in Tasks, so \in StoreOutcomes : GenInsert(t, so)
    \/ \E t \in Tasks, so \in StoreOutcomes : GenLog(t, so)
    \/ \E t \in Tasks, cred \in Credentials, b \in BlogIdStrings : GetBlog(t, cred, b)
    \/ \E t \in Tasks, so \in StoreOutcomes : GetBlogFind(t, so)

Spec == Init /\ [][Next]_vars

\* ------------------------------------------------------------- concurrent runs
\* both accounts generate blogs, of different URLs, at the same time
NextRuns ==
    \/ Tick
    \/ \E t \in Tasks, cred \in Credentials, url \in RunUrls :
         GenerateBlogConcurrently(t, cred, url)
    \/ \E t \in Tasks, o \in ValidateOutcomes, msg \in ExcMessages : GenValidate(t, o, msg)
    \/ \E t \in Tasks, o \in ExtractOutcomes, msg \in ExcMessages : GenExtract(t, o, msg)
    \/ \E t \in Tasks, o \in CleanOutcomes, msg \in ExcMessages : GenClean(t, o, msg)
    \/ \E t \in Tasks, o \in PlainOutcomes, msg \in ExcMessages : GenKeywords(t, o, msg)
    \/ \E t \in Tasks, o \in PlainOutcomes, msg \in ExcMessages : GenTopics(t, o, msg)
    \/ \E t \in Tasks, o \in PlainOutcomes, msg \in ExcMessages : GenPrompt(t, o, msg)
    \/ \E t \in Tasks, o \in PlainOutcomes, msg \in ExcMessages : GenGenerate(t, o, msg)
    \/ \E t \in Tasks, o \in FeaturedOutcomes : GenFeatured(t, o)
    \/ \E t \in Tasks, o \in ImagesOutcomes : GenImages(t, o)
    \/ \E t \in Tasks, o \in PlainOutcomes, msg \in ExcMessages : GenSeo(t, o, msg)
    \/ \E t \in Tasks, so \in StoreOutcomes : GenInsert(t, so)
    \/ \E t \in Tasks, so \in StoreOutcomes : GenLog(t, so)

SpecRuns == Init /\ [][NextRuns]_vars

\* ------------------------------------------------------------- session layer
InitAuth ==
    /\ mongodb_uri \in BOOLEAN
    /\ unsplash_access_key = FALSE
    /\ jwt_secret_key = "k1"
    /\ unique_email_index \in BOOLEAN
    /\ users = <<>>
    /\ history = <<>>
    /\ blogs = <<>>
    /\ now = 0
    /\ TasksIdle
    /\ issued = NoIssue
    /\ verified = NoVerification

NextAuth ==
    \/ Tick
    \/ \E r \in SessionRoutes, cred \in Credentials, ms \in MissingCredentialStatus :
         Rejected(r, cred, ms)
    \/ \E t \in Tasks, e \in Emails, p \in RegisterPasswords, n \in Names :
         Register(t, e, p, n)
    \/ \E t \in Tasks, so \in StoreOutcomes : RegFind(t, so)
    \/ \E t \in Tasks, so \in StoreOutcomes : RegInsert(t, so)
    \/ \E t \in Tasks, so \in StoreOutcomes : RegLog(t, so)
    \/ \E t \in Tasks, e \in Emails, p \in Passwords : Login(t, e, p)
    \/ \E t \in Tasks, so \in StoreOutcomes : LoginFind(t, so)
    \/ \E t \in Tasks, so \in StoreOutcomes : LoginLog(t, so)
    \/ \E t \in Tasks, cred \in Credentials : Logout(t, cred)
    \/ \E t \in Tasks, so \in StoreOutcomes : LogoutLog(t, so)

SpecAuth == InitAuth /\ [][NextAuth]_vars

\* ------------------------------------------------------------- audited routes
\* the four routes that write the audit trail, from an empty deployment
GenerateBlogAudited(t, cred, url) ==
    /\ AuditRoom
    /\ Runs(blogs) < MaxBlogs
    /\ EnterGenerateBlog(t, cred, url)

NextAudit ==
    \/ Tick
    \/ \E t \in Tasks, e \in Emails, p \in RegisterPasswords, n \in Names :
         Register(t, e, p, n)
    \/ \E t \in Tasks, so \in StoreOutcomes : RegFind(t, so)
    \/ \E t \in Tasks, so \in StoreOutcomes : RegInsert(t, so)
    \/ \E t \in Tasks, so \in StoreOutcomes : RegLog(t, so)
    \/ \E t \in Tasks, e \in Emails, p \in Passwords : Login(t, e, p)
    \/ \E t \in Tasks, so \in StoreOutcomes : LoginFind(t, so)
    \/ \E t \in Tasks, so \in StoreOutcomes : LoginLog(t, so)
    \/ \E t \in Tasks, cred \in Credentials : Logout(t, cred)
    \/ \E t \in Tasks, so \in StoreOutcomes : LogoutLog(t, so)
    \/ \E t \in Tasks, cred \in Credentials, url \in Urls :
         GenerateBlogAudited(t, cred, url)
    \/ \E t \in Tasks, o \in ValidateOutcomes, msg \in ExcMessages : GenValidate(t, o, msg)
    \/ \E t \in Tasks, o \in ExtractOutcomes, msg \in ExcMessages : GenExtract(t, o, msg)
    \/ \E t \in Tasks, o \in CleanOutcomes, msg \in ExcMessages : GenClean(t, o, msg)
    \/ \E t \in Tasks, o \in PlainOutcomes, msg \in ExcMessages : GenKeywords(t, o, msg)
    \/ \E t \in Tasks, o \in PlainOutcomes, msg \in ExcMessages : GenTopics(t, o, msg)
    \/ \E t \in Tasks, o \in PlainOutcomes, msg \in ExcMessages : GenPrompt(t, o, msg)
    \/ \E t \in Tasks, o \in PlainOutcomes, msg \in ExcMessages : GenGenerate(t, o, msg)
    \/ \E t \in Tasks, o \in PlainOutcomes, msg \in ExcMessages : GenSeo(t, o, msg)
    \/ \E t \in Tasks, so \in StoreOutcomes : GenInsert(t, so)
    \/ \E t \in Tasks, so \in StoreOutcomes : GenLog(t, so)

SpecAudit == InitAuth /\ [][NextAudit]_vars

\* ------------------------------------------------------------- audit trail
\* the accounts exist; they log in and out and read their history
InitHistory ==
    /\ mongodb_uri \in BOOLEAN
    /\ unsplash_access_key = FALSE
    /\ jwt_secret_key = "k1"
    /\ unique_email_index = FALSE
    /\ users = Registered
    /\ history = <<>>
    /\ blogs = <<>>
    /\ now = 0
    /\ TasksIdle
    /\ issued = NoIssue
    /\ verified = NoVerification

NextHistory ==
    \/ Tick
    \/ \E t \in Tasks, e \in Emails, p \in Passwords : Login(t, e, p)
    \/ \E t \in Tasks, so \in StoreOutcomes : LoginFind(t, so)
    \/ \E t \in Tasks, so \in StoreOutcomes : LoginLog(t, so)
    \/ \E t \in Tasks, cred \in Credentials : Logout(t, cred)
    \/ \E t \in Tasks, so \in StoreOutcomes : LogoutLog(t, so)
    \/ \E t \in Tasks, cred \in Credentials, n \in HistoryLimits : GetHistory(t, cred, n)
    \/ \E t \in Tasks, so \in StoreOutcomes : HistoryFind(t, so)

SpecHistory == InitHistory /\ [][NextHistory]_vars

\* ------------------------------------------------------------- token service
\* create_access_token and verify_token called directly, against one clock
Subjects == {Alice, [sub |-> 2, email |-> "b@x"]}

\* expires_delta: a second or a tick in the past, zero, a tick or a second ahead
Lifetimes == {-TicksPerSecond, -1, 0, 1, TicksPerSecond}

\* token strings that no call of create_access_token returned
CraftedTokens ==
    {Garbage, ForgedToken(Alice), ExpiredToken(Alice, "k1")}
    \cup {TokenWithout(Alice, c, "k1") : c \in AllClaims}

TokIssue(s, expires_delta) ==
    /\ issued' = [token |-> create_access_token(s.sub, s.email, expires_delta, now,
                                                jwt_secret_key),
                  at |-> now, ttl |-> expires_delta]
    /\ verified' = NoVerification
    /\ UNCHANGED <<config, stores, now, tasks, last>>

TokVerify(token) ==
    /\ verified' = [token |-> token, at |-> now,
                    result |-> verify_token(token, jwt_secret_key, now)]
    /\ UNCHANGED <<config, stores, now, tasks, last, issued>>

TokTick ==
    /\ now < TokMaxTime
    /\ now' = now + 1
    /\ verified' = NoVerification
    /\ UNCHANGED <<config, stores, tasks, last, issued>>

\* the values JWT_SECRET_KEY takes
Secrets == {"k1", "k2"}

\* the service is restarted with another JWT_SECRET_KEY
RotateSecret(key) ==
    /\ key # jwt_secret_key
    /\ jwt_secret_key' = key
    /\ verified' = NoVerification
    /\ UNCHANGED <<mongodb_uri, unsplash_access_key, unique_email_index, stores,
                   now, tasks, last, issued>>

InitToken ==
    /\ mongodb_uri = FALSE
    /\ unsplash_access_key = FALSE
    /\ jwt_secret_key = "k1"
    /\ unique_email_index = FALSE
    /\ users = <<>>
    /\ history = <<>>
    /\ blogs = <<>>
    /\ now = 0
    /\ TasksIdle
    /\ issued = NoIssue
    /\ verified = NoVerification

NextToken ==
    \/ TokTick
    \/ \E s \in Subjects, d \in Lifetimes : TokIssue(s, d)
    \/ \E token \in CraftedTokens : TokVerify(token)
    \/ issued # NoIssue /\ TokVerify(issued.token)
    \/ \E key \in Secrets : RotateSecret(key)

SpecToken == InitToken /\ [][NextToken]_vars

\* ------------------------------------------------------------- properties
Range(f) == {f[i] : i \in DOMAIN f}
Called(cl, stage, outcome) == [stage |-> stage, outcome |-> outcome] \in Range(cl)
Stages(cl) == [i \in DOMAIN cl |-> cl[i].stage]

\* a generate_blog run, entered by an admitted caller, has just ended
RunEnded == last.arg.route = "generate_blog" /\ last.cur.kind = "data"

\* C1: a generate_blog run whose URL validation fails ends with a 400
\* response, and validate is the only stage collaborator the run ever calls.
C1_ValidationFailureStops ==
    /\ (RunEnded /\ Called(last.calls, "validate", "invalid"))
          => /\ last.resp.status = 400
             /\ Stages(last.calls) = <<"validate">>
    /\ \A t \in Tasks : ~Called(calls[t], "validate", "invalid")

C1_Witness ==
    /\ RunEnded
    /\ last.calls = <<[stage |-> "validate", outcome |-> "invalid"]>>
    /\ last.resp.status = 400

\* C2: a generate_blog run whose generator call fails ends with a 500
\* "Blog generation failed" response, having inserted no artifact and
\* appended no audit entry, and no run goes on after such a failure.
C2_GenerationFailureWritesNothing ==
    /\ (RunEnded /\ Called(last.calls, "generate", "raise"))
          => /\ last.resp.status = 500
             /\ last.resp.error[1] = "Blog generation failed: "
             /\ last.wrote = NoWrites
             /\ last.calls[Len(last.calls)].stage = "generate"
    /\ \A t \in Tasks : ~Called(calls[t], "generate", "raise")

C2_Witness ==
    /\ RunEnded
    /\ Called(last.calls, "generate", "raise")
    /\ last.resp.status = 500
    /\ blogs = <<>> /\ history = <<>>

\* the image fetcher failed in the run that just ended, every other stage
\* succeeded, and the artifact and its audit entry were stored
ImageFetchFailedOnly ==
    /\ RunEnded
    /\ \/ Called(last.calls, "get_featured_image", "raise")
       \/ Called(last.calls, "fetch_images", "raise")
    /\ Called(last.calls, "process", "ok")
    /\ last.wrote = [users |-> 0, blogs |-> 1, history |-> 1]

\* the response of a run on url that fetched no image
ResponseWithoutImages(url) == GenResponse(url, NoLoc)

\* C3: a run in which only the image fetcher fails (on either call) returns
\* 200 with featured_image = null, additional_images = [] and every other
\* field as in a run without the failure.
C3_ImageFailureGivesNoImages ==
    ImageFetchFailedOnly =>
        /\ last.resp.status = 200
        /\ last.resp.body.blog.featured_image = "null"
        /\ last.resp.body.blog.additional_images = <<>>
        /\ [last.resp.body EXCEPT !.processing_time = 0]
              = ResponseWithoutImages(last.arg.url).body

\* get_blog has just answered from find_one, for a well-formed id that
\* names no artifact of the caller
ForeignOrAbsent ==
    /\ last.arg.route = "get_blog"
    /\ last.cur.kind = "data"
    /\ ObjectIdParses(last.arg.blog_id)
    /\ last.resp.details \notin {StoreFault, MongoNotConfigured}
    /\ \A i \in 1..Len(blogs) :
         blogs[i].id = last.arg.blog_id.oid => blogs[i].user_id # last.cur.user_id

BlogNotFound == http_exception_handler(404, <<"Blog not found">>)

\* C4: get_blog for an artifact owned by another identity answers exactly as
\* for an id that names no artifact: the same 404 "Blog not found", without
\* content; and what find_one-then-answer computes for a foreign artifact is
\* what it computes on a store without that artifact.
C4_ForeignLooksAbsent ==
    /\ ForeignOrAbsent => last.resp = BlogNotFound
    /\ \A i \in 1..Len(blogs), j \in 1..Len(users) :
         blogs[i].user_id # users[j].id
            => GetBlogResponse(blogs, blogs[i].id, users[j].id)
                 = GetBlogResponse(<<>>, blogs[i].id, users[j].id)

C4_Witness ==
    /\ ForeignOrAbsent
    /\ \E i \in 1..Len(blogs) : blogs[i].id = last.arg.blog_id.oid
    /\ last.resp = BlogNotFound

\* a logout entered by an admitted caller has just returned its message
LogoutEnded == last.arg.route = "logout" /\ last.resp = LoggedOut

\* this step is the one in which task t's logout returns
LogoutReturns(t) == pc[t] = "logout_log" /\ pc'[t] = "idle"

\* C5: after a logout performed with a token, verify_token of that token
\* still yields the identity the logout ran under, and so does the token of
\* every account that has a logout entry in the audit trail; the step in
\* which a logout returns leaves the settings, the users and the artifacts
\* alone and appends at most the one audit entry of that logout.
C5_LogoutKeepsToken ==
    /\ [](LogoutEnded =>
            /\ last.cur.kind = "data"
            /\ verify_token(last.arg.cred.token, jwt_secret_key, now) = last.cur)
    /\ [](\A i \in 1..Len(users), k \in 1..Len(history) :
            (history[k].action = "logout" /\ history[k].user_id = users[i].id)
               => verify_token(LoginToken(Subject(users[i]), users[i].created_at,
                                          jwt_secret_key), jwt_secret_key, now).kind
                    = "data")
    /\ [][\A t \in Tasks : LogoutReturns(t) =>
            /\ UNCHANGED <<config, users, blogs>>
            /\ verify_token(arg[t].cred.token, jwt_secret_key', now')
                  = verify_token(arg[t].cred.token, jwt_secret_key, now)
            /\ \/ history' = history
               \/ history' = Append(history,
                                AuditEntry(cur[t].user_id, "logout", NoData, loc[t].ts))
          ]_vars

C5_Witness ==
    /\ LogoutEnded
    /\ last.wrote.history = 1
    /\ history # <<>>
    /\ history[Len(history)].action = "logout"
    /\ Admitted(last.arg.cred)

\* the verification that just ran was of the token issued last
VerifiedIssued == issued # NoIssue /\ verified.token = issued.token

\* C6: a token issued with a lifetime of zero or less is rejected whenever
\* it is verified, the tick of its issue included.
C6_SpentTokenRejected ==
    (VerifiedIssued /\ issued.ttl <= 0) => verified.result = NoIdentity

\* C7: verify_token answers every token string with an identity or with the
\* one invalid result; it never raises.
C7_VerifyNeverRaises ==
    verified # NoVerification => verified.result.kind \in {"data", "none"}

\* the three credentials the caller must not tell apart
MissingExpiredForged ==
    {NoCredential, Bearer(ExpiredToken(Alice, "k1")), Bearer(ForgedToken(Alice))}

Unauthorized == http_exception_handler(401, <<"Could not validate credentials">>)

\* C8: on every protected route a request without credential, one with an
\* expired token and one with a forged token get the same Unauthorized
\* response, status and detail.
C8_RejectionsAlike ==
    (last.arg.route \in ProtectedRoutes /\ last.arg.cred \in MissingExpiredForged)
       => last.resp = Unauthorized

\* a register call has just ended without creating a user record, and not
\* because the store was unreachable
RegisterCreatedNothing ==
    /\ last.arg.route = "register"
    /\ last.wrote.users = 0
    /\ last.resp.status # 503
    /\ last.resp.details # StoreFault

\* C9: a register call that creates no user record fails with "Email
\* already registered", also when it passed the pre-check and lost at insert.
C9_LoserGetsConflict == RegisterCreatedNothing => last.resp = EmailTaken

\* C10: the users collection holds at most one record per email.
C10_OneRecordPerEmail ==
    \A i, j \in 1..Len(users) : users[i].email = users[j].email => i = j

\* a login has just ended, and not because the store was unreachable
LoginEnded ==
    /\ last.arg.route = "login"
    /\ last.resp.status # 503
    /\ last.resp.details # StoreFault

\* register returned the id of users[i]: its audit entry is in the trail
RegisterReturned(i) ==
    \E k \in 1..Len(history) :
        history[k].action = "register" /\ history[k].user_id = users[i].id

\* C11: a login with the (email, secret) pair of a successful register
\* succeeds, and the identity it returns is the id that register returned.
C11_RegisterThenAuthenticate ==
    \A i \in 1..Len(users) :
        (/\ LoginEnded
         /\ RegisterReturned(i)
         /\ users[i].email = last.arg.email
         /\ users[i].password_hash = hash_password(last.arg.password))
           => /\ last.resp.status = 200
              /\ last.resp.body.access_token.sub = users[i].id

\* the login that just ended named an email no record has
UnknownEmail == \A i \in 1..Len(users) : users[i].email # last.arg.email

\* the login that just ended named a registered email with a secret that
\* no record of that email has
WrongSecret ==
    /\ ~UnknownEmail
    /\ \A i \in 1..Len(users) :
          users[i].email = last.arg.email
             => users[i].password_hash # hash_password(last.arg.password)

\* C12: a login with a wrong secret for a registered email and a login with
\* an email that is not registered end alike: the same 401 "Invalid email or
\* password", no token, nothing written.
C12_NoMatchAlike ==
    (LoginEnded /\ (UnknownEmail \/ WrongSecret))
       => /\ last.resp = InvalidLogin
          /\ last.wrote = NoWrites
          /\ authenticate_user(users, last.arg.email, last.arg.password) = {}

C12_Witness ==
    /\ LoginEnded
    /\ WrongSecret
    /\ last.resp = InvalidLogin

\* the positions in which a request waits for the insert of its audit entry
AuditPcs == {"reg_log", "login_log", "logout_log", "gen_log"}

\* this step ends task t's request in log_user_action without an audit
\* entry: the audit write failed
AuditWriteFails(t) == pc[t] \in AuditPcs /\ pc'[t] = "idle" /\ history' = history

\* C13: when the audit write of a request fails, the request still succeeds:
\* the step that ends it without an audit entry answers 200.
C13_AuditFailureTolerated ==
    [][\A t \in Tasks : AuditWriteFails(t) => last'.resp.status = 200]_vars

\* C14: a generate_blog run inserts one artifact if it answers 200 and none
\* if it answers an error.
C14_OneArtifactPerSuccess ==
    RunEnded => (last.wrote.blogs = IF last.resp.status = 200 THEN 1 ELSE 0)

\* the routes that need the store
StoreRoutes == {"register", "login", "logout", "history", "generate_blog", "get_blog"}

\* a request to a store route has just ended, its handler was entered and
\* came to the point where it needs the store, and the store connection
\* string is not configured
EndedWithoutStore ==
    /\ ~mongodb_uri
    /\ last.arg.route \in StoreRoutes
    /\ (last.arg.route \in {"register", "login"} \/ last.cur.kind = "data")
    /\ (last.arg.route = "get_blog" => ObjectIdParses(last.arg.blog_id))
    /\ (last.arg.route = "generate_blog" => Called(last.calls, "process", "ok"))

\* C15: without the store connection string every store route answers 503.
C15_NoStoreGives503 == EndedWithoutStore => last.resp.status = 503

\* the collaborators of the input, extraction and analysis stages
InputStages == {"validate", "extract", "clean", "extract_and_categorize",
                "analyze", "build_prompt"}

\* the stage whose failure ended the run that just ended
FailedStage == last.calls[Len(last.calls)].stage

\* the run that just ended stopped at a stage that did not succeed
StageFailed ==
    /\ RunEnded
    /\ last.calls # <<>>
    /\ last.calls[Len(last.calls)].outcome # "ok"
    /\ FailedStage \notin {"get_featured_image", "fetch_images"}

\* C16: a failure of an input, extraction or analysis stage, of whatever
\* kind, answers 400; a failure of generation or post-processing answers 500.
C16_StageFailureStatus ==
    StageFailed =>
        last.resp.status = IF FailedStage \in InputStages THEN 400 ELSE 500

\* the token issued last was signed with a secret that is no longer current
IssuedBeforeRotation == issued # NoIssue /\ issued.token.key # jwt_secret_key

\* C17: once the signing secret is rotated, verify_token rejects every token
\* issued under the previous secret, at once.
C17_RotationInvalidates ==
    (VerifiedIssued /\ IssuedBeforeRotation) => verified.result = NoIdentity

C17_Witness ==
    /\ VerifiedIssued
    /\ IssuedBeforeRotation
    /\ issued.at = now
    /\ issued.ttl > 0
    /\ verified.result = NoIdentity

\* get_history has just returned its records
HistoryReturned == last.arg.route = "history" /\ last.resp.status = 200

\* C18: the records get_history returns all belong to the caller, are
\* ordered newest first, and are never more than limit, for every limit the
\* route accepts.
C18_HistoryOwnNewestFirstCapped ==
    HistoryReturned =>
        LET records == last.resp.body.records
        IN /\ \A i \in 1..Len(records) : records[i].user_id = last.cur.user_id
           /\ \A i, j \in 1..Len(records) :
                 i < j => records[i].timestamp >= records[j].timestamp
           /\ Len(records) <= IF last.arg.limit < 0 THEN 0 ELSE last.arg.limit

\* the fields of a response body that generate_blog and get_blog share
ArtifactFields(body) ==
    [blog |-> body.blog, keywords |-> body.keywords, analysis |-> body.analysis,
     word_count |-> body.word_count, processing_time |-> body.processing_time]

\* generate_blog has just answered 200; its audit entry, the last of the
\* trail, names the artifact it persisted
RunSucceeded == RunEnded /\ last.resp.status = 200

\* get_blog has just answered 200
BlogReturned == last.arg.route = "get_blog" /\ last.resp.status = 200

\* C19: what get_blog answers to identity I for the artifact a successful
\* run of I persisted has the blog, keywords, analysis, word_count and
\* processing_time of that run's response: it does so right after the run,
\* no step ever changes a persisted artifact, and get_blog answers with the
\* persisted artifact.
C19_GetBlogReturnsGenerated ==
    /\ [](RunSucceeded =>
            LET got == GetBlogResponse(blogs, history[Len(history)].data.blog_id,
                                       last.cur.user_id)
            IN /\ got.status = 200
               /\ ArtifactFields(got.body) = ArtifactFields(last.resp.body))
    /\ [][\A i \in 1..Len(blogs) : Len(blogs') >= i /\ blogs'[i] = blogs[i]]_vars
    /\ [](BlogReturned =>
            last.resp = GetBlogResponse(blogs, last.arg.blog_id.oid, last.cur.user_id))

C19_Witness ==
    /\ BlogReturned
    /\ last.resp.body.blog.featured_image = FeaturedImage
    /\ last.resp.body.processing_time > 0

InvalidBlogId == http_exception_handler(400, <<"Invalid blog ID">>)

\* get_blog has just ended for an admitted caller and an id that is not
\* well formed
MalformedIdEnded ==
    /\ last.arg.route = "get_blog"
    /\ last.cur.kind = "data"
    /\ ~last.arg.blog_id.wellformed

\* C20: get_blog answers an id that is not well formed with 400 "Invalid
\* blog ID", whoever the caller and whether or not the store is configured,
\* and no request with such an id ever waits for a look-up in the store.
C20_MalformedIdRejectedFirst ==
    /\ MalformedIdEnded => last.resp = InvalidBlogId
    /\ \A t \in Tasks : pc[t] = "blog_find" => arg[t].blog_id.wellformed

C20_Witness ==
    /\ MalformedIdEnded
    /\ ~mongodb_uri
    /\ last.cur.user_id = 2
    /\ last.resp = InvalidBlogId

\* this step is the one in which task t's generate_blog run returns 200
RunReturns(t) ==
    /\ pc[t] = "gen_log"
    /\ pc'[t] = "idle"
    /\ last'.resp.status = 200

\* C21: the processing_time a successful run reports was sampled after the
\* artifact was persisted and the audit entry written: it is the time from
\* the start of the run to the step in which the run returns.
C21_ProcessingTimeCoversWrites ==
    [][\A t \in Tasks :
         RunReturns(t) =>
            last'.resp.body.processing_time = ProcessingTime(now, loc[t].start_time)
      ]_vars

\* the run that just ended failed in "except Exception"
UnclassifiedFailure ==
    /\ RunEnded
    /\ last.resp.status = 500
    /\ last.resp.error[1] = "Internal server error: "

\* C22: the response to an unclassified failure of generate_blog is the
\* same whatever the message of the underlying exception.
C22_InternalErrorGeneric ==
    UnclassifiedFailure => \A msg \in ExcMessages : last.resp = InternalError(msg)

\* the calls of one run in the order of the source, steps 1 to 9
StageOrder ==
    <<"validate", "extract", "clean", "extract_and_categorize", "analyze",
      "build_prompt", "generate", "get_featured_image", "fetch_images",
      "process">>

Position(stage) == CHOOSE i \in DOMAIN StageOrder : StageOrder[i] = stage

\* the two calls of step 8, which a run may skip
ImageStages == {"get_featured_image", "fetch_images"}

\* the stages that must have returned normally before stage is called
Before(stage) ==
    {StageOrder[i] : i \in 1..(Position(stage) - 1)} \ ImageStages

\* the call a task at this position of the synchronous section makes next
StageAt(at) ==
    CASE at = "gen_validate" -> "validate"
      [] at = "gen_extract" -> "extract"
      [] at = "gen_clean" -> "clean"
      [] at = "gen_keywords" -> "extract_and_categorize"
      [] at = "gen_topics" -> "analyze"
      [] at = "gen_prompt" -> "build_prompt"
      [] at = "gen_generate" -> "generate"
      [] at = "gen_featured" -> "get_featured_image"
      [] at = "gen_images" -> "fetch_images"
      [] at = "gen_seo" -> "process"

\* cl calls the stages in order, none twice, each after its predecessors
\* returned normally, fetch_images only after get_featured_image returned
InOrder(cl) ==
    /\ \A i, j \in DOMAIN cl :
          i < j => Position(cl[i].stage) < Position(cl[j].stage)
    /\ \A j \in DOMAIN cl :
          /\ \A st \in Before(cl[j].stage) :
                \E i \in 1..(j - 1) : cl[i] = [stage |-> st, outcome |-> "ok"]
          /\ cl[j].stage = "fetch_images"
                => \E i \in 1..(j - 1) : cl[i].stage = "get_featured_image"

\* C23: in every run the stage collaborators are called in the order
\* validate, extract, clean, extract_and_categorize, analyze, build_prompt,
\* generate, image fetch, process, none of them twice, and a stage is called
\* only after every earlier stage of the run has returned.
C23_StagesInOrder ==
    /\ RunEnded => InOrder(last.calls)
    /\ \A t \in Tasks :
          /\ InOrder(calls[t])
          /\ pc[t] \in SyncPcs =>
                /\ \A i \in DOMAIN calls[t] :
                      Position(calls[t][i].stage) < Position(StageAt(pc[t]))
                /\ \A st \in Before(StageAt(pc[t])) :
                      Called(calls[t], st, "ok")

\* a run that made all ten calls has just returned 200
C23_Witness == RunSucceeded /\ Stages(last.calls) = StageOrder

\* the stages whose failure ends the run
FatalStages == Range(StageOrder) \ ImageStages

\* a call of a fatal stage that did not return normally
FatalFailure(call) == call.stage \in FatalStages /\ call.outcome # "ok"

\* C24: a failure of any fatal stage, SEO post-processing included, ends the
\* run: the failed call is the run's last call, the run persists no artifact
\* and writes no audit entry, and it answers with one error response.
C24_FatalFailureAborts ==
    /\ StageFailed =>
          /\ last.resp.status >= 400
          /\ last.wrote = NoWrites
    /\ RunEnded =>
          \A i \in DOMAIN last.calls :
              FatalFailure(last.calls[i]) => i = Len(last.calls)
    /\ \A t \in Tasks : \A i \in DOMAIN calls[t] : ~FatalFailure(calls[t][i])

\* a run whose SEO post-processing raised has just ended
C24_Witness == StageFailed /\ FailedStage = "process" /\ Len(last.calls) >= 8

\* two runs of different identities are in flight at the same time
ConcurrentRuns ==
    \E t1, t2 \in InFlight("generate_blog") : cur[t1].user_id # cur[t2].user_id

\* artifact b belongs to the run of identity c for request a
ArtifactOf(b, c, a) ==
    /\ b \in DOMAIN blogs
    /\ blogs[b].id = b
    /\ blogs[b].user_id = c.user_id
    /\ blogs[b].url = a.url
    /\ blogs[b].blog.content = BlogOf(a.url)

\* the audit entries of action generate_blog that name artifact b
EntriesNaming(b) ==
    {h \in DOMAIN history :
        history[h].action = "generate_blog" /\ history[h].data.blog_id = b}

\* C25: whatever the interleaving of concurrent generate_blog runs of
\* different identities, each persisted artifact has the user_id, the url and
\* the content of the run that created it, and the generate_blog audit entry
\* of that run has the same user_id and names that artifact.
C25_ArtifactsOfTheirRuns ==
    /\ \A t \in Tasks :
          pc[t] = "gen_log" => ArtifactOf(loc[t].id, cur[t], arg[t])
    /\ RunSucceeded =>
          \E b \in DOMAIN blogs :
              /\ ArtifactOf(b, last.cur, last.arg)
              /\ blogs[b].blog = last.resp.body.blog
              /\ \E h \in EntriesNaming(b) :
                    /\ history[h].user_id = last.cur.user_id
                    /\ history[h].data.url = last.arg.url
    /\ \A h \in DOMAIN history :
          history[h].action = "generate_blog" =>
              /\ ArtifactOf(history[h].data.blog_id,
                            [user_id |-> history[h].user_id], history[h].data)
              /\ EntriesNaming(history[h].data.blog_id) = {h}

\* two runs of different identities overlapped: the one that inserted its
\* artifact second wrote its audit entry first, and both have returned
C25_Witness ==
    /\ RunSucceeded
    /\ Len(blogs) = 2
    /\ Len(history) = 2
    /\ blogs[1].user_id # blogs[2].user_id
    /\ blogs[1].url # blogs[2].url
    /\ history[1].data.blog_id = 2

\* the positions at which a run is inside a call that goes to the network:
\* content extraction, LLM generation, the two image searches
ExternalPcs == {"gen_extract", "gen_generate", "gen_featured", "gen_images"}

\* some step of a request handled by task t
TaskStep(t) ==
    \/ \E cred \in Credentials, url \in Urls : GenerateBlog(t, cred, url)
    \/ \E o \in ValidateOutcomes, msg \in ExcMessages : GenValidate(t, o, msg)
    \/ \E o \in ExtractOutcomes, msg \in ExcMessages : GenExtract(t, o, msg)
    \/ \E o \in CleanOutcomes, msg \in ExcMessages : GenClean(t, o, msg)
    \/ \E o \in PlainOutcomes, msg \in ExcMessages : GenKeywords(t, o, msg)
    \/ \E o \in PlainOutcomes, msg \in ExcMessages : GenTopics(t, o, msg)
    \/ \E o \in PlainOutcomes, msg \in ExcMessages : GenPrompt(t, o, msg)
    \/ \E o \in PlainOutcomes, msg \in ExcMessages : GenGenerate(t, o, msg)
    \/ \E o \in FeaturedOutcomes : GenFeatured(t, o)
    \/ \E o \in ImagesOutcomes : GenImages(t, o)
    \/ \E o \in PlainOutcomes, msg \in ExcMessages : GenSeo(t, o, msg)
    \/ \E so \in StoreOutcomes : GenInsert(t, so)
    \/ \E so \in StoreOutcomes : GenLog(t, so)
    \/ \E cred \in Credentials, b \in BlogIdStrings : GetBlog(t, cred, b)
    \/ \E so \in StoreOutcomes : GetBlogFind(t, so)

\* C26: while a generate_blog run is inside an external stage call, the task
\* of another request can take a step.
C26_OthersProgressDuringStage ==
    \A t \in Tasks :
        pc[t] \in ExternalPcs => \E other \in Tasks \ {t} : ENABLED TaskStep(other)

\* a request waits for its store while another task's run is inside the
\* extraction call
C26_Blocked ==
    \E t, other \in Tasks :
        /\ pc[t] = "gen_extract"
        /\ pc[other] = "blog_find"

\* the routes that call log_user_action, each with its own name as action
AuditedRoutes == {"register", "login", "logout", "generate_blog"}

\* the user on whose behalf the request that just ended with 200 acted
ActingUser ==
    CASE last.arg.route = "register" -> last.resp.body.id
      [] last.arg.route = "login" -> last.resp.body.access_token.sub
      [] OTHER -> last.cur.user_id

\* a request of an audited route has just ended with 200
AuditedSuccess == last.arg.route \in AuditedRoutes /\ last.resp.status = 200

\* a register or login request has just ended without success
EntryFailure ==
    /\ last.arg.route \in {"register", "login"}
    /\ last.resp.status \notin {0, 200}

\* this step ends a request of task t
Ends(t) == pc[t] # "idle" /\ pc'[t] = "idle"

\* C27: a successful register, login, logout or generate_blog appends exactly
\* one audit entry, which has the acting user's id and the route's action
\* name; a register or login that fails appends none.
C27_OneAuditEntryPerSuccess ==
    [][\A t \in Tasks :
         /\ (Ends(t) /\ arg[t].route \in AuditedRoutes /\ last'.resp.status = 200) =>
               /\ Len(history') = Len(history) + 1
               /\ SubSeq(history', 1, Len(history)) = history
               /\ history'[Len(history')].user_id = ActingUser'
               /\ history'[Len(history')].action = arg[t].route
               /\ last'.wrote.history = 1
         /\ (Ends(t) /\ arg[t].route \in {"register", "login"}
                     /\ last'.resp.status # 200) =>
               /\ history' = history
               /\ last'.wrote.history = 0
      ]_vars

\* a user registered and then generated a blog, and both requests returned 200
C27_Witness ==
    /\ AuditedSuccess
    /\ last.arg.route = "generate_blog"
    /\ Len(history) = 2
    /\ history[1].action = "register"

\* a login was refused after a register succeeded
C27_WitnessFailure == EntryFailure /\ last.resp.status = 401 /\ Len(history) = 1

\* last is the answer to a protected request that had no valid identity
RejectedRequest(l) ==
    /\ l.arg.route \in ProtectedRoutes
    /\ l.cur.kind # "data"

\* C28: a request to a protected route that get_current_user rejects changes
\* nothing: the step that answers it calls no stage collaborator and leaves
\* the configuration, the three collections and every task as they were, and
\* no handler of a protected route ever runs without an identity.
C28_RejectionChangesNothing ==
    [][/\ RejectedRequest(last') =>
             /\ last'.calls = <<>>
             /\ last'.wrote = NoWrites
             /\ last'.resp.status \in {401, 403, 500}
             /\ UNCHANGED <<config, stores, tasks>>
       /\ \A t \in Tasks :
             (pc'[t] # "idle" /\ arg'[t].route \in ProtectedRoutes)
                => cur'[t].kind = "data"
      ]_vars

\* a generate_blog request with an invalid token has just been refused while
\* an artifact exists
C28_Witness ==
    /\ RejectedRequest(last)
    /\ last.arg.route = "generate_blog"
    /\ last.resp.status = 401
    /\ blogs # <<>>

\* login has just returned a token
LoginReturned == last.arg.route = "login" /\ last.resp.status = 200

\* the tick at which that login created its token: the timestamp of the audit
\* entry it has just written
IssueInstant == history[Len(history)].timestamp

\* the instants at which the returned token is verified: when it was issued,
\* now, and the last tick strictly before issue instant plus expires_in
VerificationInstants ==
    {IssueInstant, now,
     IssueInstant + last.resp.body.expires_in * TicksPerSecond - 1}

\* C29: the token of a successful login, verified with the same secret at
\* any instant strictly before its expiry, yields the id and email of the
\* authenticated user record, and its exp claim is the issue instant plus
\* the configured lifetime, the value reported as expires_in, in seconds.
C29_LoginTokenIdentityAndExpiry ==
    LoginReturned =>
        LET token == last.resp.body.access_token
            user == FirstUser(users, last.arg.email)
        IN /\ verify_password(last.arg.password, user.password_hash)
           /\ \A at \in VerificationInstants :
                 /\ verify_token(token, jwt_secret_key, at).kind = "data"
                 /\ verify_token(token, jwt_secret_key, at).user_id = user.id
                 /\ verify_token(token, jwt_secret_key, at).email = user.email
           /\ token.exp = Seconds(IssueInstant + Minutes(JwtExpiryMinutes))
           /\ token.exp = Seconds(IssueInstant) + last.resp.body.expires_in

\* the second account has logged in half a second after the epoch second
C29_Witness ==
    /\ LoginReturned
    /\ last.arg.email = "b@x"
    /\ IssueInstant = 1

\* the calls of cl that went to the image fetcher
ImageCalls(cl) == {i \in DOMAIN cl : cl[i].stage \in ImageStages}

\* C30: without an image-provider key a run never calls the image fetcher;
\* once generation succeeded it goes on to SEO post-processing, and if it
\* returns 200 the blog has featured_image null and no additional images.
C30_NoKeyNoImageCalls ==
    ~unsplash_access_key =>
        /\ \A t \in Tasks :
              /\ ImageCalls(calls[t]) = {}
              /\ pc[t] \notin {"gen_featured", "gen_images"}
              /\ Called(calls[t], "generate", "ok") =>
                    \/ pc[t] = "gen_seo"
                    \/ Called(calls[t], "process", "ok")
        /\ RunEnded =>
              /\ ImageCalls(last.calls) = {}
              /\ Called(last.calls, "generate", "ok") =>
                    \E o \in PlainOutcomes : Called(last.calls, "process", o)
        /\ RunSucceeded =>
              /\ last.resp.body.blog.featured_image = "null"
              /\ last.resp.body.blog.additional_images = <<>>

\* a run without an image-provider key has just returned 200
C30_Witness ==
    /\ ~unsplash_access_key
    /\ RunSucceeded
    /\ Called(last.calls, "process", "ok")
====
